---- MODULE Spec2Model ----
(***************************************************************************)
(* Model of src/src/lib.rs: the builder Parallel<'a, T> (new, add, each),  *)
(* its terminal operations run and finish, and the abort guard NoPanic.    *)
(*                                                                         *)
(* The calling thread is a program counter `pc` walking through finish;    *)
(* every spawned worker thread i has its own status thr[i].  A closure is  *)
(* kept deferred as the pair (mapper, argument) and is only evaluated by   *)
(* Call when a thread invokes it.                                          *)
(*                                                                         *)
(* Spec     : destructors of task values and panic payloads do not panic.  *)
(* SpecDrop : the same program where T and the panic payloads are a user   *)
(*            type whose destructor panics on the value 1.                 *)
(***************************************************************************)
EXTENDS Integers, Sequences, FiniteSets, TLC

\* Largest number of closures a builder is given (add/each stop there).
MaxTasks == 3

\* Arguments handed to the mappers, and the mappers the user supplies.
Args == {0, 1}
Mappers == {"inc", "boom"}

VARIABLES
    closures,   \* Parallel.closures: the builder's Vec of deferred closures
    pc,         \* position of the calling thread
    mode,       \* last operation applied to the builder: "new", "add",
                \* "each", and then the terminal one, "run" or "finish"
    tasks,      \* self.closures as moved into finish (the workers' closures)
    fgc,        \* the closure f run on the calling thread: <<>> or <<c>>
    guard,      \* TRUE while the NoPanic guard of finish is alive
    handles,    \* Vec of JoinHandle: thread ids in spawn order
    joined,     \* number of handles the join loop has consumed
    thr,        \* thr[i]: status of worker thread i
    held,       \* held[i]: what thread i holds: <<value>> or <<payload>>
    chan,       \* chan[i]: queue of the mpsc channel of task i
    rcvAlive,   \* rcvAlive[i]: the Receiver of channel i has not been dropped
    last_err,   \* Option: <<>> or <<payload>>
    res,        \* result of catch_unwind(f): <<>> or <<outcome>>
    results,    \* Vec<T> built by the drain loop
    raised,     \* payload unwinding out of the calling thread: <<>> or <<p>>
    ret,        \* what the terminal operation returned: <<>> or <<record>>
    calls,      \* calls[i]: invocations of task i (0 is the foreground f)
    dtorPanics  \* environment: TRUE when the destructor of the value 1 panics

vars == <<closures, pc, mode, tasks, fgc, guard, handles, joined, thr, held,
          chan, rcvAlive, last_err, res, results, raised, ret, calls,
          dtorPanics>>

Workers == 1 .. MaxTasks

\* who-tags of payloads that do not come from a task
FgId == 0
SpawnErr == -1
SendErr == -2
RecvErr == -3
DropErr == -4

Closures == [m : Mappers, x : Args]

\* ---------------------------------------------------------------- user code

\* The mapper f applied to t: "inc" returns t + 1, "boom" panics with t.
Map(f, t) ==
    IF f = "inc" THEN [ok |-> TRUE, val |-> t + 1]
    ELSE [ok |-> FALSE, val |-> t]

\* Invoking a boxed closure FnOnce() -> T: it applies its mapper to its
\* captured argument.
Call(c) == Map(c.m, c.x)

\* Drop of a T or of a panic payload: TRUE when the destructor panics.
DropPanics(v) == dtorPanics /\ v = 1

\* ---------------------------------------------------------------- builder

\* Parallel::new
New == <<>>

\* Parallel::add: push the boxed closure.
add(cs, f) == Append(cs, f)

\* A wrong each loop that walks the iterator from its end.
RECURSIVE EachLoopRev(_, _, _)
EachLoopRev(cs, iter, f) ==
    IF iter = <<>> THEN cs
    ELSE EachLoopRev(Append(cs, [m |-> f, x |-> iter[Len(iter)]]),
                     SubSeq(iter, 1, Len(iter) - 1), f)

\* Parallel::each loop: for t in iter { f.clone(); push(|| f(t)) }
RECURSIVE EachLoop(_, _, _)
EachLoop(cs, iter, f) ==
    IF iter = <<>> THEN cs
    ELSE EachLoop(Append(cs, [m |-> f, x |-> Head(iter)]), Tail(iter), f)

BuilderUnchanged ==
    UNCHANGED <<pc, tasks, fgc, guard, handles, joined, thr, held, chan,
                rcvAlive, last_err, res, results, raised, ret, dtorPanics>>

Add(f) ==
    /\ pc = "build"
    /\ Len(closures) < MaxTasks
    /\ closures' = add(closures, f)
    /\ mode' = "add"
    /\ UNCHANGED calls
    /\ BuilderUnchanged

\* A wrong each that calls the mapper on every element while building.
EachEager(iter, f) ==
    /\ pc = "build"
    /\ Len(closures) + Len(iter) <= MaxTasks
    /\ closures' = EachLoop(closures, iter, f)
    /\ mode' = "each"
    /\ calls' = [i \in 0 .. MaxTasks |->
                   IF i \in Len(closures) + 1 .. Len(closures) + Len(iter)
                   THEN calls[i] + 1 ELSE calls[i]]
    /\ BuilderUnchanged

Each(iter, f) ==
    /\ pc = "build"
    /\ Len(closures) + Len(iter) <= MaxTasks
    /\ closures' = EachLoop(closures, iter, f)
    /\ mode' = "each"
    /\ UNCHANGED calls
    /\ BuilderUnchanged

\* The builder goes out of scope without a terminal operation: the Vec and
\* its boxed closures are dropped, none is called (closures keeps what was
\* dropped).
Discard ==
    /\ pc = "build"
    /\ pc' = "dropped"
    /\ UNCHANGED <<closures, mode, tasks, fgc, guard, handles, joined, thr, held, chan,
                   rcvAlive, last_err, res, results, raised, ret, calls,
                   dtorPanics>>

\* ---------------------------------------------------------------- NoPanic

\* std::thread::panicking() on the calling thread: a payload is unwinding.
Panicking == raised # <<>>

\* A wrong guard whose drop never aborts.
NoPanicDropNever(next) == next

\* NoPanic::drop: abort the process when dropped while panicking, else go on.
NoPanicDrop(next) == IF Panicking THEN "aborted" ELSE next

\* ---------------------------------------------------------------- run, finish

Last(s) == s[Len(s)]
Front(s) == SubSeq(s, 1, Len(s) - 1)

\* A wrong finish that creates no guard.
EnterFinishNoGuard(cs, f, op) ==
    /\ tasks' = cs
    /\ fgc' = <<f>>
    /\ mode' = op
    /\ closures' = <<>>
    /\ pc' = "spawn"
    /\ UNCHANGED <<handles, joined, thr, held, chan, rcvAlive, last_err, res,
                   results, raised, ret, calls, dtorPanics, guard>>

\* Entry of finish(f) on the closures cs: the guard is created, handles and
\* receivers are empty.
EnterFinish(cs, f, op) ==
    /\ tasks' = cs
    /\ fgc' = <<f>>
    /\ mode' = op
    /\ closures' = <<>>
    /\ guard' = TRUE
    /\ pc' = "spawn"
    /\ UNCHANGED <<handles, joined, thr, held, chan, rcvAlive, last_err, res,
                   results, raised, ret, calls, dtorPanics>>

\* Parallel::finish called by the user with the foreground closure f.
Finish(f) ==
    /\ pc = "build"
    /\ EnterFinish(closures, f, "finish")

\* A wrong run that unwraps the popped closure: on an empty builder it
\* panics instead of returning.
RunUnwrap ==
    /\ pc = "build"
    /\ IF closures = <<>>
       THEN /\ pc' = "panicked"
            /\ mode' = "run"
            /\ raised' = <<[who |-> RecvErr, val |-> 0]>>
            /\ UNCHANGED <<closures, tasks, fgc, guard, handles, joined, thr,
                           held, chan, rcvAlive, last_err, res, results,
                           ret, calls, dtorPanics>>
       ELSE EnterFinish(Front(closures), Last(closures), "run")

\* A wrong run that takes the first closure, not the last, as foreground.
RunFirst ==
    /\ pc = "build"
    /\ IF closures = <<>>
       THEN /\ pc' = "returned"
            /\ mode' = "run"
            /\ ret' = <<[results |-> <<>>, r |-> <<>>]>>
            /\ UNCHANGED <<closures, tasks, fgc, guard, handles, joined, thr,
                           held, chan, rcvAlive, last_err, res, results,
                           raised, calls, dtorPanics>>
       ELSE EnterFinish(Tail(closures), Head(closures), "run")

\* Parallel::run: pop the last closure; None returns Vec::new() at once,
\* Some(f) calls self.finish(f) on what is left.
Run ==
    /\ pc = "build"
    /\ IF closures = <<>>
       THEN /\ pc' = "returned"
            /\ mode' = "run"
            /\ ret' = <<[results |-> <<>>, r |-> <<>>]>>
            /\ UNCHANGED <<closures, tasks, fgc, guard, handles, joined, thr,
                           held, chan, rcvAlive, last_err, res, results,
                           raised, calls, dtorPanics>>
       ELSE EnterFinish(Front(closures), Last(closures), "run")

\* A wrong spawn loop that does not keep the receiver: it is dropped at
\* the end of the iteration.
SpawnDropReceiver ==
    /\ pc = "spawn"
    /\ Len(handles) < Len(tasks)
    /\ LET i == Len(handles) + 1 IN
        /\ handles' = Append(handles, i)
        /\ thr' = [thr EXCEPT ![i] = "running"]
    /\ UNCHANGED <<closures, pc, mode, tasks, fgc, guard, joined, held, chan,
                   last_err, res, results, raised, ret, calls, dtorPanics,
                   rcvAlive>>

\* One iteration of the spawn loop: channel(), wrap, thread::spawn, push the
\* handle and the receiver.
Spawn ==
    /\ pc = "spawn"
    /\ Len(handles) < Len(tasks)
    /\ LET i == Len(handles) + 1 IN
        /\ handles' = Append(handles, i)
        /\ thr' = [thr EXCEPT ![i] = "running"]
        /\ rcvAlive' = [rcvAlive EXCEPT ![i] = TRUE]
    /\ UNCHANGED <<closures, pc, mode, tasks, fgc, guard, joined, held, chan,
                   last_err, res, results, raised, ret, calls, dtorPanics>>

\* std::thread::spawn panics when the OS cannot create the thread: the
\* calling thread starts to unwind out of the spawn loop.
SpawnFail ==
    /\ pc = "spawn"
    /\ Len(handles) < Len(tasks)
    /\ raised' = <<[who |-> SpawnErr, val |-> 0]>>
    /\ pc' = "unwind"
    /\ UNCHANGED <<closures, mode, tasks, fgc, guard, handles, joined, thr,
                   held, chan, rcvAlive, last_err, res, results, ret, calls,
                   dtorPanics>>

\* A wrong finish that calls f before the spawn loop is over.
StartFgEarly ==
    /\ pc = "spawn"
    /\ last_err' = <<>>
    /\ calls' = [calls EXCEPT ![FgId] = @ + 1]
    /\ pc' = "fg"
    /\ UNCHANGED <<closures, mode, tasks, fgc, guard, handles, joined, thr,
                   held, chan, rcvAlive, res, results, raised, ret,
                   dtorPanics>>

\* The spawn loop is over: last_err = None, and catch_unwind calls f.
StartFg ==
    /\ pc = "spawn"
    /\ Len(handles) = Len(tasks)
    /\ last_err' = <<>>
    /\ calls' = [calls EXCEPT ![FgId] = @ + 1]
    /\ pc' = "fg"
    /\ UNCHANGED <<closures, mode, tasks, fgc, guard, handles, joined, thr,
                   held, chan, rcvAlive, res, results, raised, ret,
                   dtorPanics>>

\* f returns or panics; catch_unwind stores Ok(r) or Err(payload) in res.
FgDone ==
    /\ pc = "fg"
    /\ res' = <<Call(fgc[1])>>
    /\ pc' = "join"
    /\ UNCHANGED <<closures, mode, tasks, fgc, guard, handles, joined, thr,
                   held, chan, rcvAlive, last_err, results, raised, ret,
                   calls, dtorPanics>>

\* A thread can be joined once it has terminated.
Terminated(i) == thr[i] \in {"done", "panicked"}

\* A wrong join loop that does not wait: the handle is dropped (the thread
\* detached) and only a thread that has already panicked is noticed.
JoinNoWait ==
    /\ pc = "join"
    /\ joined < Len(handles)
    /\ LET h == handles[joined + 1] IN
        /\ joined' = joined + 1
        /\ IF thr[h] = "panicked"
           THEN /\ last_err' = held[h]
                /\ held' = [held EXCEPT ![h] = <<>>]
           ELSE UNCHANGED <<last_err, held>>
    /\ UNCHANGED <<closures, mode, tasks, fgc, guard, handles, thr, chan,
                   rcvAlive, res, results, ret, calls, dtorPanics, raised,
                   pc>>

\* A wrong join loop that keeps the first Err instead of the last.
JoinKeepFirst ==
    /\ pc = "join"
    /\ joined < Len(handles)
    /\ LET h == handles[joined + 1] IN
        /\ Terminated(h)
        /\ joined' = joined + 1
        /\ IF thr[h] = "panicked" /\ last_err = <<>>
           THEN /\ last_err' = held[h]
                /\ held' = [held EXCEPT ![h] = <<>>]
           ELSE UNCHANGED <<last_err, held>>
    /\ UNCHANGED <<closures, mode, tasks, fgc, guard, handles, thr, chan,
                   rcvAlive, res, results, ret, calls, dtorPanics, raised,
                   pc>>

\* One iteration of the join loop: h.join() waits for the thread; an Err
\* overwrites last_err, which drops the payload kept so far.
Join ==
    /\ pc = "join"
    /\ joined < Len(handles)
    /\ LET h == handles[joined + 1] IN
        /\ Terminated(h)
        /\ joined' = joined + 1
        /\ IF thr[h] = "panicked"
           THEN /\ last_err' = held[h]
                /\ held' = [held EXCEPT ![h] = <<>>]
                /\ IF last_err # <<>> /\ DropPanics(last_err[1].val)
                   THEN /\ raised' = <<[who |-> DropErr, val |-> 0]>>
                        /\ pc' = "unwind"
                   ELSE UNCHANGED <<raised, pc>>
           ELSE UNCHANGED <<last_err, held, raised, pc>>
    /\ UNCHANGED <<closures, mode, tasks, fgc, guard, handles, thr, chan,
                   rcvAlive, res, results, ret, calls, dtorPanics>>

\* A wrong join loop that breaks at the first Err.
JoinDoneEarly ==
    /\ pc = "join"
    /\ (joined = Len(handles) \/ last_err # <<>>)
    /\ guard' = FALSE
    /\ pc' = NoPanicDrop("check")
    /\ UNCHANGED <<closures, mode, tasks, fgc, handles, joined, thr, held,
                   chan, rcvAlive, last_err, res, results, raised, ret, calls,
                   dtorPanics>>

\* A wrong finish without drop(guard): the guard lives to the end of scope.
JoinDoneKeepGuard ==
    /\ pc = "join"
    /\ joined = Len(handles)
    /\ pc' = "check"
    /\ UNCHANGED <<closures, mode, tasks, fgc, guard, handles, joined, thr,
                   held, chan, rcvAlive, last_err, res, results, raised, ret,
                   calls, dtorPanics>>

\* The join loop is over: drop(guard).
JoinDone ==
    /\ pc = "join"
    /\ joined = Len(handles)
    /\ guard' = FALSE
    /\ pc' = NoPanicDrop("check")
    /\ UNCHANGED <<closures, mode, tasks, fgc, handles, joined, thr, held,
                   chan, rcvAlive, last_err, res, results, raised, ret, calls,
                   dtorPanics>>

\* A wrong order of the two re-raises: the foreground's panic first.
CheckFgFirst ==
    /\ pc = "check"
    /\ IF ~res[1].ok
       THEN /\ raised' = <<[who |-> FgId, val |-> res[1].val]>>
            /\ res' = <<>>
            /\ pc' = "unwind"
            /\ UNCHANGED last_err
       ELSE IF last_err # <<>>
       THEN /\ raised' = last_err
            /\ last_err' = <<>>
            /\ pc' = "unwind"
            /\ UNCHANGED res
       ELSE /\ pc' = "drain"
            /\ UNCHANGED <<raised, last_err, res>>
    /\ UNCHANGED <<closures, mode, tasks, fgc, guard, handles, joined, thr,
                   held, chan, rcvAlive, results, ret, calls, dtorPanics>>

\* A wrong finish that forgets to re-raise the worker's panic.
CheckIgnoreErr ==
    /\ pc = "check"
    /\ pc' = "drain"
    /\ UNCHANGED <<closures, mode, tasks, fgc, guard, handles, joined, thr,
                   held, chan, rcvAlive, res, results, ret, calls, dtorPanics,
                   raised, last_err>>

\* if let Some(err) = last_err { resume_unwind(err) }
Check ==
    /\ pc = "check"
    /\ IF last_err # <<>>
       THEN /\ raised' = last_err
            /\ last_err' = <<>>
            /\ pc' = "unwind"
       ELSE /\ pc' = "drain"
            /\ UNCHANGED <<raised, last_err>>
    /\ UNCHANGED <<closures, mode, tasks, fgc, guard, handles, joined, thr,
                   held, chan, rcvAlive, res, results, ret, calls, dtorPanics>>

\* A wrong drain loop that walks the receivers from the end.
NextReceiverRev == Len(handles) - Len(results)

\* The receiver the drain loop reads next.
NextReceiver == Len(results) + 1

\* One iteration of the drain loop: receiver.recv().unwrap(), push.  recv
\* blocks while the channel is empty and its sender is alive, and fails
\* when the channel is empty and the sender is gone.
Drain ==
    /\ pc = "drain"
    /\ Len(results) < Len(handles)
    /\ LET k == NextReceiver IN
        IF chan[k] # <<>>
        THEN /\ results' = Append(results, Head(chan[k]))
             /\ chan' = [chan EXCEPT ![k] = Tail(@)]
             /\ rcvAlive' = [rcvAlive EXCEPT ![k] = FALSE]
             /\ UNCHANGED <<raised, pc>>
        ELSE /\ Terminated(k)
             /\ raised' = <<[who |-> RecvErr, val |-> 0]>>
             /\ pc' = "unwind"
             /\ UNCHANGED <<results, chan, rcvAlive>>
    /\ UNCHANGED <<closures, mode, tasks, fgc, guard, handles, joined, thr,
                   held, last_err, res, ret, calls, dtorPanics>>

\* What the terminal operation hands back: finish the pair (results, r),
\* run the results with r pushed at the end.
Returned(op, rs, r) ==
    IF op = "run" THEN [results |-> Append(rs, r), r |-> <<>>]
    ELSE [results |-> rs, r |-> <<r>>]

\* A wrong end of finish that swallows the foreground's panic and returns
\* the results with the payload's content in place of r.
MatchSwallow ==
    /\ pc = "drain"
    /\ Len(results) = Len(handles)
    /\ ret' = <<Returned(mode, results, res[1].val)>>
    /\ results' = <<>>
    /\ pc' = "returned"
    /\ res' = <<>>
    /\ UNCHANGED <<closures, mode, tasks, fgc, guard, handles, joined, thr,
                   held, chan, rcvAlive, last_err, calls, dtorPanics, raised>>

\* match res { Ok(r) => (results, r), Err(err) => resume_unwind(err) }
Match ==
    /\ pc = "drain"
    /\ Len(results) = Len(handles)
    /\ IF res[1].ok
       THEN /\ ret' = <<Returned(mode, results, res[1].val)>>
            /\ results' = <<>>
            /\ pc' = "returned"
            /\ UNCHANGED raised
       ELSE /\ raised' = <<[who |-> FgId, val |-> res[1].val]>>
            /\ pc' = "unwind"
            /\ UNCHANGED <<ret, results>>
    /\ res' = <<>>
    /\ UNCHANGED <<closures, mode, tasks, fgc, guard, handles, joined, thr,
                   held, chan, rcvAlive, last_err, calls, dtorPanics>>

\* The objects the locals of finish still own: they are dropped when the
\* calling thread unwinds out of finish.
RECURSIVE SeqVals(_)
SeqVals(s) == IF s = <<>> THEN {} ELSE {Head(s)} \cup SeqVals(Tail(s))

OwnedVals ==
    SeqVals(results)
    \cup UNION {SeqVals(chan[i]) : i \in {j \in Workers : rcvAlive[j]}}
    \cup {res[k].val : k \in DOMAIN res}
    \cup {last_err[k].val : k \in DOMAIN last_err}

\* Unwinding out of finish drops res, last_err, receivers and handles (the
\* threads not joined yet are detached).  A destructor that panics now is
\* a panic while panicking: the runtime aborts.  The guard, declared first,
\* is dropped last.
Unwind ==
    /\ pc = "unwind"
    /\ IF \E v \in OwnedVals : DropPanics(v)
       THEN /\ pc' = "aborted"
            /\ UNCHANGED <<res, last_err, results, chan, rcvAlive>>
       ELSE /\ pc' = IF guard THEN "unwind_guard" ELSE "panicked"
            /\ res' = <<>>
            /\ last_err' = <<>>
            /\ results' = <<>>
            /\ chan' = [i \in Workers |-> <<>>]
            /\ rcvAlive' = [i \in Workers |-> FALSE]
    /\ UNCHANGED <<closures, mode, tasks, fgc, guard, handles, joined, thr,
                   held, raised, ret, calls, dtorPanics>>

\* The guard is dropped by the unwinding: NoPanic::drop runs.
GuardDrop ==
    /\ pc = "unwind_guard"
    /\ guard' = FALSE
    /\ pc' = NoPanicDrop("panicked")
    /\ UNCHANGED <<closures, mode, tasks, fgc, handles, joined, thr, held,
                   chan, rcvAlive, last_err, res, results, raised, ret, calls,
                   dtorPanics>>

\* ---------------------------------------------------------------- workers

\* A wrong worker that calls its closure a second time for the value it
\* sends.
WorkerCallTwice(i) ==
    /\ pc # "aborted"
    /\ thr[i] = "running"
    /\ calls' = [calls EXCEPT ![i] = @ + 2]
    /\ LET o == Call(tasks[i]) IN
        IF o.ok
        THEN /\ thr' = [thr EXCEPT ![i] = "computed"]
             /\ held' = [held EXCEPT ![i] = <<o.val>>]
        ELSE /\ thr' = [thr EXCEPT ![i] = "panicked"]
             /\ held' = [held EXCEPT ![i] = <<[who |-> i, val |-> o.val]>>]
    /\ UNCHANGED <<closures, pc, mode, tasks, fgc, guard, handles, joined,
                   chan, rcvAlive, last_err, res, results, raised, ret,
                   dtorPanics>>

\* Thread i runs `sender.send(f()).unwrap()`: first f() is called; a panic
\* of f ends the thread with that payload.
WorkerCall(i) ==
    /\ pc # "aborted"
    /\ thr[i] = "running"
    /\ calls' = [calls EXCEPT ![i] = @ + 1]
    /\ LET o == Call(tasks[i]) IN
        IF o.ok
        THEN /\ thr' = [thr EXCEPT ![i] = "computed"]
             /\ held' = [held EXCEPT ![i] = <<o.val>>]
        ELSE /\ thr' = [thr EXCEPT ![i] = "panicked"]
             /\ held' = [held EXCEPT ![i] = <<[who |-> i, val |-> o.val]>>]
    /\ UNCHANGED <<closures, pc, mode, tasks, fgc, guard, handles, joined,
                   chan, rcvAlive, last_err, res, results, raised, ret,
                   dtorPanics>>

\* A wrong dispatch where every worker sends on the first channel.
WorkerSendShared(i) ==
    /\ pc # "aborted"
    /\ thr[i] = "computed"
    /\ chan' = [chan EXCEPT ![1] = Append(@, held[i][1])]
    /\ thr' = [thr EXCEPT ![i] = "done"]
    /\ held' = [held EXCEPT ![i] = <<>>]
    /\ UNCHANGED <<closures, pc, mode, tasks, fgc, guard, handles, joined,
                   rcvAlive, last_err, res, results, raised, ret, calls,
                   dtorPanics>>

\* A wrong dispatch on a rendezvous channel: send waits until the drain
\* loop is receiving on this channel.
WorkerSendRendezvous(i) ==
    /\ pc = "drain"
    /\ NextReceiver = i
    /\ thr[i] = "computed"
    /\ chan' = [chan EXCEPT ![i] = Append(@, held[i][1])]
    /\ thr' = [thr EXCEPT ![i] = "done"]
    /\ held' = [held EXCEPT ![i] = <<>>]
    /\ UNCHANGED <<closures, pc, mode, tasks, fgc, guard, handles, joined,
                   rcvAlive, last_err, res, results, raised, ret, calls,
                   dtorPanics>>

\* Then the value is sent: send on the unbounded channel never blocks; it
\* fails, and unwrap panics, only when the receiver has been dropped.
WorkerSend(i) ==
    /\ pc # "aborted"
    /\ thr[i] = "computed"
    /\ IF rcvAlive[i]
       THEN /\ chan' = [chan EXCEPT ![i] = Append(@, held[i][1])]
            /\ thr' = [thr EXCEPT ![i] = "done"]
            /\ held' = [held EXCEPT ![i] = <<>>]
       ELSE /\ thr' = [thr EXCEPT ![i] = "panicked"]
            /\ held' = [held EXCEPT ![i] = <<[who |-> SendErr, val |-> 0]>>]
            /\ UNCHANGED chan
    /\ UNCHANGED <<closures, pc, mode, tasks, fgc, guard, handles, joined,
                   rcvAlive, last_err, res, results, raised, ret, calls,
                   dtorPanics>>

\* ---------------------------------------------------------------- system

Iters == UNION {[1 .. n -> Args] : n \in 0 .. MaxTasks}

InitWith(d) ==
    /\ closures = New
    /\ pc = "build"
    /\ mode = "new"
    /\ tasks = <<>>
    /\ fgc = <<>>
    /\ guard = FALSE
    /\ handles = <<>>
    /\ joined = 0
    /\ thr = [i \in Workers |-> "none"]
    /\ held = [i \in Workers |-> <<>>]
    /\ chan = [i \in Workers |-> <<>>]
    /\ rcvAlive = [i \in Workers |-> FALSE]
    /\ last_err = <<>>
    /\ res = <<>>
    /\ results = <<>>
    /\ raised = <<>>
    /\ ret = <<>>
    /\ calls = [i \in 0 .. MaxTasks |-> 0]
    /\ dtorPanics = d

Init == InitWith(FALSE)

InitDrop == InitWith(TRUE)

Next ==
    \/ \E f \in Closures : Add(f)
    \/ \E iter \in Iters, f \in Mappers : Each(iter, f)
    \/ Discard
    \/ \E f \in Closures : Finish(f)
    \/ Run
    \/ Spawn
    \/ SpawnFail
    \/ StartFg
    \/ FgDone
    \/ Join
    \/ JoinDone
    \/ Check
    \/ Drain
    \/ Match
    \/ Unwind
    \/ GuardDrop
    \/ \E i \in Workers : WorkerCall(i)
    \/ \E i \in Workers : WorkerSend(i)

Spec == Init /\ [][Next]_vars

SpecDrop == InitDrop /\ [][Next]_vars

\* A step of a thread that is running: the calling thread inside the
\* terminal operation (the step where the OS refuses a thread is not one
\* the scheduler owes), or a spawned worker.
Progress ==
    \/ Spawn
    \/ StartFg
    \/ FgDone
    \/ Join
    \/ JoinDone
    \/ Check
    \/ Drain
    \/ Match
    \/ Unwind
    \/ GuardDrop
    \/ \E i \in Workers : WorkerCall(i)
    \/ \E i \in Workers : WorkerSend(i)

\* Fair scheduling with tasks that end: while some thread can take a step,
\* a step is eventually taken.
SpecLive == Init /\ [][Next]_vars /\ WF_vars(Progress)

\* ---------------------------------------------------------------- claims

\* Every task handed to the terminal operation, in submission order; under
\* run the foreground closure is the last-submitted task.
AllTasks == tasks \o fgc

\* The values the closures cs produce when invoked directly, in order.
Direct(cs) == [i \in 1 .. Len(cs) |-> Call(cs[i]).val]

AllOk(cs) == \A i \in 1 .. Len(cs) : Call(cs[i]).ok

\* The workers whose task panics, and whether the foreground panics.
FailedWorkers == {i \in 1 .. Len(tasks) : ~Call(tasks[i]).ok}
FgFails == fgc # <<>> /\ ~Call(fgc[1]).ok

\* The payload of the panic of worker i, and of the foreground.
WorkerPayload(i) == [who |-> i, val |-> Call(tasks[i]).val]
FgPayload == [who |-> FgId, val |-> Call(fgc[1]).val]

\* Control has left finish: it returned or a panic unwound out of it.
Left == fgc # <<>> /\ pc \in {"returned", "panicked"}

\* Every spawned thread has terminated and has been joined.
AllJoined ==
    /\ Len(handles) = Len(tasks)
    /\ joined = Len(handles)
    /\ \A i \in 1 .. Len(handles) : Terminated(i)

\* C1: when control leaves finish, by returning or by re-raising, every
\* worker of the task set has been spawned, has terminated and has been
\* joined, whatever the outcomes of the workers and of the foreground.
C1_JoinedBeforeLeaving == Left => AllJoined

\* C1 witness: worker 1 panicked, worker 2 did not, and the panic of
\* worker 1 left finish only after worker 2 was joined too.
C1_Witness ==
    /\ pc = "panicked"
    /\ Len(tasks) >= 2
    /\ raised[1].who = 1
    /\ thr[2] = "done"
    /\ joined = Len(tasks)

\* C2: run returns, for N tasks that all succeed, exactly the N values of
\* the tasks in submission order (N = 0 included), and does not re-raise.
C2_RunInSubmissionOrder ==
    mode = "run" =>
        /\ pc = "returned" =>
              /\ Len(ret[1].results) = Len(AllTasks)
              /\ ret[1].results = Direct(AllTasks)
        /\ AllOk(AllTasks) => pc # "panicked"

\* C2 witness: run returned three values that tell the tasks apart.
C2_Witness ==
    /\ mode = "run"
    /\ pc = "returned"
    /\ ret[1].results = <<2, 1, 2>>

\* C3: finish(fg) on K tasks without any panic returns the pair of the K
\* worker values in submission order and the value of fg.
C3_FinishPair ==
    mode = "finish" =>
        /\ pc = "returned" =>
              /\ Len(ret[1].results) = Len(tasks)
              /\ ret[1] = [results |-> Direct(tasks),
                           r |-> <<Call(fgc[1]).val>>]
        /\ AllOk(AllTasks) => pc # "panicked"

\* C3 witness: finish returned ([1, 2], 2).
C3_Witness ==
    /\ mode = "finish"
    /\ pc = "returned"
    /\ ret[1] = [results |-> <<1, 2>>, r |-> <<2>>]

\* The one task that panics, as its payload.
TheFailure ==
    IF FailedWorkers # {}
    THEN WorkerPayload(CHOOSE i \in FailedWorkers : TRUE)
    ELSE FgPayload

\* C4: when exactly one task, worker or foreground, panics, the terminal
\* operation never returns; when its panic propagates, it is that task's
\* payload and every task has been invoked once and has run to its end.
C4_SinglePanicPropagates ==
    (fgc # <<>> /\ Cardinality(FailedWorkers) + (IF FgFails THEN 1 ELSE 0) = 1)
    =>
        /\ pc # "returned"
        /\ pc = "panicked" =>
              /\ raised = <<TheFailure>>
              /\ AllJoined
              /\ \A i \in 1 .. Len(tasks) :
                    /\ calls[i] = 1
                    /\ i \notin FailedWorkers => thr[i] = "done"
              /\ calls[FgId] = 1

\* C4 witness: of three tasks given to run the first alone panicked, and
\* its panic propagated out of run.
C4_Witness ==
    /\ mode = "run"
    /\ pc = "panicked"
    /\ FailedWorkers = {1}
    /\ Len(tasks) = 2
    /\ ~FgFails

\* C5: when a worker and the foreground both panic, finish neither aborts
\* nor returns: once the foreground has been called, the guard is never
\* dropped by an unwinding, and the unwinding out of finish starts only with the
\* guard gone, all workers joined, and carries one payload.
C5_OnePanicNoAbort ==
    (FailedWorkers # {} /\ FgFails /\ calls[FgId] >= 1) =>
        /\ pc \notin {"aborted", "returned", "unwind_guard"}
        /\ pc \in {"unwind", "panicked"} =>
              /\ ~guard
              /\ AllJoined
              /\ Len(raised) = 1

\* C5 witness: a worker and the foreground panicked and one panic left
\* finish.
C5_Witness ==
    /\ pc = "panicked"
    /\ FailedWorkers # {}
    /\ FgFails

\* C6: the panic that leaves finish is a worker's whenever a worker
\* panicked, whatever the foreground did; it is the foreground's only when
\* the foreground panicked and no worker did.
C6_WorkerFirst ==
    (fgc # <<>> /\ pc = "panicked") =>
        IF FailedWorkers # {}
        THEN \E i \in FailedWorkers : raised = <<WorkerPayload(i)>>
        ELSE FgFails /\ raised = <<FgPayload>>

\* C6 witness: worker and foreground panicked with different payloads and
\* the worker's one left finish.
C6_Witness ==
    /\ pc = "panicked"
    /\ mode = "finish"
    /\ FailedWorkers = {1}
    /\ FgFails
    /\ FgPayload.val # WorkerPayload(1).val
    /\ raised = <<WorkerPayload(1)>>

\* The failed workers whose payload the join loop overwrites (all but the
\* last one), the workers that succeed, and the objects a re-raise drops.
Superseded == {i \in FailedWorkers : \E j \in FailedWorkers : j > i}
OkWorkers == (1 .. Len(tasks)) \ FailedWorkers

\* A second panic on the calling thread, with a task failure captured, is
\* certain for these tasks: a superseded payload whose destructor panics
\* (in the join loop), a worker value or the foreground outcome whose
\* destructor panics while a worker's panic is re-raised (step 4), or a
\* worker value whose destructor panics while the foreground's panic is
\* re-raised (step 6).
SecondPanicInJoin ==
    \E i \in Superseded : DropPanics(Call(tasks[i]).val)
SecondPanicInReraise ==
    \/ /\ FailedWorkers # {}
       /\ \/ \E i \in OkWorkers : DropPanics(Call(tasks[i]).val)
          \/ DropPanics(Call(fgc[1]).val)
    \/ /\ FailedWorkers = {}
       /\ FgFails
       /\ \E i \in OkWorkers : DropPanics(Call(tasks[i]).val)

\* C7: when the calling thread itself panics in the join loop or while a
\* captured failure unwinds out of finish (a destructor of a payload or of
\* a value panics there), then finish, once past its spawn loop, never
\* returns and never unwinds to its caller: it can only end by the abort
\* of the process.
C7_DoubleFailureAborts ==
    (calls[FgId] >= 1 /\ (SecondPanicInJoin \/ SecondPanicInReraise)) =>
        pc \notin {"panicked", "returned"}

\* C7 witness: the destructor of a superseded payload panicked in the join
\* loop and the guard, dropped by the unwinding, aborted the process.
C7_Witness ==
    /\ pc = "aborted"
    /\ raised = <<[who |-> DropErr, val |-> 0]>>
    /\ ~guard
    /\ joined >= 2

\* run was called on an empty builder and is over.
RunEmptyDone ==
    /\ pc = "returned"
    /\ ret = <<[results |-> <<>>, r |-> <<>>]>>
    /\ handles = <<>>
    /\ ~guard
    /\ \A i \in 0 .. MaxTasks : calls[i] = 0
    /\ \A i \in Workers : thr[i] = "none"

\* C8: run on an empty task set returns the empty sequence in one step,
\* without the guard, a thread, or a call of any closure, and stays there.
C8_RunEmpty ==
    /\ [][(pc = "build" /\ closures = <<>> /\ mode' = "run") =>
             RunEmptyDone']_vars
    /\ []((mode = "run" /\ fgc = <<>>) => RunEmptyDone)

\* C8 witness: run has returned from an empty builder.
C8_Witness == mode = "run" /\ fgc = <<>> /\ pc = "returned"

\* n sequential calls of add, one closure || f(x) per element of iter.
RECURSIVE AddAll(_, _, _)
AddAll(cs, iter, f) ==
    IF iter = <<>> THEN cs
    ELSE AddAll(add(cs, [m |-> f, x |-> Head(iter)]), Tail(iter), f)

\* C9: each(iter, f) leaves the builder as the sequential adds of
\* || f(x1), ..., || f(xn) do: the old closures stay in front, n closures
\* are appended, and the k-th of them computes f(xk).
C9_EachIsAdds ==
    [][\A iter \in Iters, f \in Mappers :
          Each(iter, f) =>
              /\ closures' = AddAll(closures, iter, f)
              /\ Len(closures') = Len(closures) + Len(iter)
              /\ SubSeq(closures', 1, Len(closures)) = closures
              /\ \A k \in 1 .. Len(iter) :
                    Call(closures'[Len(closures) + k]) = Map(f, iter[k])]_vars

\* C9 witness: each appended two closures, for 0 and 1 in that order,
\* behind one closure the builder already held.
C9_Witness ==
    /\ mode = "each"
    /\ closures = <<[m |-> "inc", x |-> 1], [m |-> "boom", x |-> 0],
                    [m |-> "boom", x |-> 1]>>

\* C10: before a terminal operation, and after the builder was discarded
\* without one, no closure and no mapper has been called and no thread
\* exists.
C10_BuildersRunNothing ==
    pc \in {"build", "dropped"} =>
        /\ \A i \in 0 .. MaxTasks : calls[i] = 0
        /\ handles = <<>>
        /\ \A i \in Workers : thr[i] = "none"

\* C10 witness: a builder filled by each was discarded.
C10_Witness ==
    /\ pc = "dropped"
    /\ mode = "each"
    /\ Len(closures) >= 2

\* C11: no task is ever invoked twice; every task is invoked by its own
\* thread only (worker i calls tasks[i], the calling thread calls f); no
\* thread holds and no channel carries more than the one outcome of its
\* task; and when the terminal operation returns or re-raises, every
\* submitted task has been invoked exactly once.
C11_InvokedOnce ==
    /\ \A i \in 0 .. MaxTasks : calls[i] <= 1
    /\ \A i \in Workers :
          /\ Len(held[i]) + Len(chan[i]) <= 1
          /\ calls[i] = 1 => (i <= Len(handles) /\ thr[i] # "running")
          /\ i > Len(tasks) => calls[i] = 0
    /\ Left =>
          /\ calls[FgId] = 1
          /\ \A i \in 1 .. Len(tasks) : calls[i] = 1

\* C11 witness: finish re-raised with three workers and the foreground
\* each invoked once.
C11_Witness ==
    /\ pc = "panicked"
    /\ Len(tasks) = MaxTasks
    /\ \A i \in 0 .. MaxTasks : calls[i] = 1

\* The payloads of the tasks that panic.
FailurePayloads ==
    {WorkerPayload(i) : i \in FailedWorkers}
    \cup (IF FgFails THEN {FgPayload} ELSE {})

\* C12: the terminal operation returns exactly when no task panics;
\* otherwise what leaves it is the unchanged payload of one of the tasks
\* that panicked, and nothing is returned, not even the values of the
\* workers that succeeded.
C12_ReturnIffNoPanic ==
    Left =>
        /\ pc = "returned" <=> AllOk(AllTasks)
        /\ pc = "returned" => raised = <<>> /\ ret # <<>>
        /\ pc = "panicked" =>
              /\ ret = <<>>
              /\ Len(raised) = 1
              /\ raised[1] \in FailurePayloads

\* C12 witness: worker 2 panicked, worker 1 delivered its value, and the
\* panic left finish with nothing returned.
C12_Witness ==
    /\ pc = "panicked"
    /\ FailedWorkers = {2}
    /\ thr[1] = "done"
    /\ ~FgFails
    /\ ret = <<>>

\* The failed worker submitted last.
LastFailed == CHOOSE i \in FailedWorkers : \A j \in FailedWorkers : j <= i

\* C13: when workers panic, the payload that leaves finish is the one of
\* the failed worker with the highest submission index, in whatever order
\* the workers panicked.
C13_LastFailedWins ==
    (pc = "panicked" /\ FailedWorkers # {}) =>
        raised = <<WorkerPayload(LastFailed)>>

\* C13 witness: workers 1 and 2 panicked with different payloads and the
\* payload of worker 2 left finish.
C13_Witness ==
    /\ pc = "panicked"
    /\ FailedWorkers = {1, 2}
    /\ WorkerPayload(1).val # WorkerPayload(2).val
    /\ raised = <<WorkerPayload(2)>>

\* C14: run on N >= 1 closures hands the first N-1, in order, to finish
\* as workers and the last one as f; the threads are spawned one per
\* worker in that order, all N-1 of them before f is called; and what run
\* returns is the N-1 worker values followed by the value of f.
C14_RunLastOnCaller ==
    /\ [][(pc = "build" /\ closures # <<>> /\ mode' = "run") =>
             /\ tasks' = SubSeq(closures, 1, Len(closures) - 1)
             /\ fgc' = <<closures[Len(closures)]>>
             /\ handles' = <<>>]_vars
    /\ []((mode = "run" /\ fgc # <<>>) =>
             /\ Len(handles) <= Len(tasks)
             /\ \A k \in 1 .. Len(handles) : handles[k] = k
             /\ calls[FgId] >= 1 => Len(handles) = Len(tasks)
             /\ pc = "returned" =>
                   ret[1].results =
                       Direct(tasks) \o <<Call(fgc[1]).val>>)

\* C14 witness: run of three closures returned with two threads spawned.
C14_Witness ==
    /\ mode = "run"
    /\ pc = "returned"
    /\ handles = <<1, 2>>
    /\ ret[1].results = <<1, 1, 2>>

\* A failure of a task is unwinding out of finish.
TaskReraised == raised # <<>> /\ raised[1].who >= FgId

\* C15: the phases of finish follow each other: f is called only when
\* every worker has been spawned, in submission order; a join happens only
\* in the join loop, after f has ended, and takes the handles one by one in
\* submission order; a channel is drained and a task's failure is
\* re-raised only when every worker has been joined.
C15_PhaseOrder ==
    /\ []( /\ \A k \in 1 .. Len(handles) : handles[k] = k
           /\ calls[FgId] >= 1 => Len(handles) = Len(tasks)
           /\ joined >= 1 => pc \notin {"build", "spawn", "fg"}
           /\ (results # <<>> \/ TaskReraised \/ pc = "drain") =>
                 joined = Len(tasks) )
    /\ [][joined' # joined =>
             /\ pc = "join"
             /\ res # <<>>
             /\ joined' = joined + 1
             /\ handles[joined'] = joined']_vars

\* C15 witness: with two workers joined, the drain loop has read the
\* first channel.
C15_Witness ==
    /\ pc = "drain"
    /\ Len(tasks) = 2
    /\ joined = 2
    /\ Len(results) = 1

\* C16: in the drain loop every channel not read yet holds exactly the
\* value of its task and its receiver is alive, so no recv blocks or
\* fails.
C16_DrainReady ==
    /\ pc = "drain" =>
          /\ last_err = <<>>
          /\ \A k \in Len(results) + 1 .. Len(handles) :
                /\ chan[k] = <<Call(tasks[k]).val>>
                /\ rcvAlive[k]
    /\ raised # <<>> => raised[1].who # RecvErr

\* C16 witness: the drain loop starts with three full channels.
C16_Witness ==
    /\ pc = "drain"
    /\ results = <<>>
    /\ Len(handles) = 3
    /\ \A k \in 1 .. 3 : Len(chan[k]) = 1

\* C17: a channel never carries more than one value; a value enters
\* channel i only from thread i, once, as the value of task i; and a
\* value leaves a channel only through the calling thread, in the drain
\* loop or when it drops the receivers.
C17_OneShotChannels ==
    /\ [](\A i \in Workers :
             /\ Len(chan[i]) <= 1
             /\ chan[i] # <<>> =>
                   /\ chan[i] = <<Call(tasks[i]).val>>
                   /\ thr[i] = "done")
    /\ [][\A i \in Workers :
             /\ Len(chan'[i]) > Len(chan[i]) =>
                   /\ thr[i] = "computed"
                   /\ thr'[i] = "done"
                   /\ chan[i] = <<>>
                   /\ \A j \in Workers \ {i} : chan'[j] = chan[j]
             /\ Len(chan'[i]) < Len(chan[i]) =>
                   /\ pc \in {"drain", "unwind"}
                   /\ thr' = thr]_vars

\* C17 witness: worker 2 has delivered on its own channel while worker 1
\* is still running.
C17_Witness ==
    /\ chan[2] # <<>>
    /\ chan[1] = <<>>
    /\ thr[1] = "running"
    /\ thr[2] = "done"

\* The OS refused a thread in the spawn loop: tasks are left that never
\* run.
SpawnFailed == raised # <<>> /\ raised[1].who = SpawnErr

\* C18: under fair scheduling, a terminal operation that has been called
\* and whose tasks all get to run eventually returns or re-raises: the
\* join loop never waits for ever, whichever workers panic and in
\* whatever order they end.
C18_Terminates ==
    (mode \in {"run", "finish"}) ~>
        (pc \in {"returned", "panicked"} \/ SpawnFailed)

\* C18 witness: the join loop waits for worker 1, which has not been
\* called yet, while worker 2 has already ended by a panic.
C18_Witness ==
    /\ pc = "join"
    /\ joined = 0
    /\ thr[1] = "running"
    /\ thr[2] = "panicked"

\* The calling thread's own control flow has panicked (not a task's
\* failure that finish re-raises).
OwnPanic == raised # <<>> /\ raised[1].who < FgId

\* Thread i ended the way its task did: by a panic exactly when the task
\* panics.
EndsAsTask(i) == Terminated(i) => (thr[i] = "panicked" <=> ~Call(tasks[i]).ok)

\* C19 as stated: the delivery of a value never fails, so a worker thread
\* ends by a panic exactly when its task panicked.
C19_DeliveryNeverFails == \A i \in 1 .. Len(handles) : EndsAsTask(i)

\* C19 amended: send never blocks; while the calling thread has not itself
\* panicked, every receiver stays alive until the joins are over and every
\* worker thread ends by a panic exactly when its task panicked; and every
\* join that happens reports an error exactly when the task panicked.
C19_DeliveryUnlessUnwinding ==
    \A i \in 1 .. Len(handles) :
        /\ (thr[i] = "computed" /\ pc # "aborted") => ENABLED WorkerSend(i)
        /\ ~OwnPanic =>
              /\ EndsAsTask(i)
              /\ pc \in {"spawn", "fg", "join", "check"} => rcvAlive[i]
        /\ i <= joined => EndsAsTask(i) /\ Terminated(i)

\* C19 witness: worker 1 has delivered its value and ended while the
\* calling thread is still in its spawn loop.
C19_Witness ==
    /\ pc = "spawn"
    /\ Len(handles) = 1
    /\ thr[1] = "done"
    /\ chan[1] = <<Call(tasks[1]).val>>

====
